---- MODULE Spec2Model ----
(***************************************************************************)
(* NID_OCR: the field extractor of nid_ocr.py (extract_nid_fields) and the *)
(* box renderer of draw_nid_boxes.py (draw_boxes_on_image).                *)
(*                                                                         *)
(* Text is a sequence of lexical tokens.  A token stands for a maximal run *)
(* of characters that the code's patterns treat as a unit:                 *)
(*   "Name:", "NAME:"                    what NAME_PREFIX matches          *)
(*   "Date of Birth:", "date of birth:"  what DOB_PREFIX matches           *)
(*   "ID NO:"                            what IDNO_PREFIX matches          *)
(*   "bn_naam:", "bn_pita:", "bn_mata:"  the three Bengali labels          *)
(*   "bn_word"     a Bengali word without colon                            *)
(*   "bn_jatiyo"   a Bengali header word                                   *)
(*   "Government"  a Latin header word                                     *)
(*   "JOHN"        a Latin word without colon                              *)
(*   " "           one whitespace character                                *)
(* A line whose text is None is a line with hasText = FALSE.               *)
(***************************************************************************)
EXTENDS Integers, Sequences, FiniteSets, TLC

VARIABLES
    lines, i, out, pc,                       \* extract_nid_fields
    w, h, data, crops_dir, idx, heap, img,   \* draw_boxes_on_image
    img_draw, crops, box, label_y, saved, rpc

rvars == <<w, h, data, crops_dir, idx, heap, img, img_draw, crops, box, label_y,
           saved, rpc>>
vars == <<lines, i, out, pc, w, h, data, crops_dir, idx, heap, img, img_draw,
          crops, box, label_y, saved, rpc>>

\* Longest OCR line sequence explored.
MaxLines == 3
\* Largest number of entries in the renderer's JSON explored.
MaxFields == 2

(***************************************************************************)
(* nid_ocr.py: patterns and string helpers                                 *)
(***************************************************************************)
NAME_PREFIX == {"Name:", "NAME:"}
DOB_PREFIX == {"Date of Birth:", "date of birth:"}
IDNO_PREFIX == {"ID NO:"}
BANGLA_NAME_LABEL == "bn_naam:"
BANGLA_FATHER == "bn_pita:"
BANGLA_MOTHER == "bn_mata:"

BengaliTokens == {"bn_naam:", "bn_pita:", "bn_mata:", "bn_word", "bn_jatiyo"}
ColonTokens == {"Name:", "NAME:", "Date of Birth:", "date of birth:", "ID NO:",
                "bn_naam:", "bn_pita:", "bn_mata:"}
HeaderTokens == {"Government", "bn_jatiyo"}

IsSpace(t) == t = " "

RECURSIVE LStrip(_)
LStrip(s) == IF s # <<>> /\ IsSpace(Head(s)) THEN LStrip(Tail(s)) ELSE s

RECURSIVE RStrip(_)
RStrip(s) ==
    IF s # <<>> /\ IsSpace(s[Len(s)]) THEN RStrip(SubSeq(s, 1, Len(s) - 1)) ELSE s

\* str.strip()
Strip(s) == RStrip(LStrip(s))

\* token `in` text
Contains(s, t) == \E k \in 1..Len(s) : s[k] = t

has_bengali(s) == \E k \in 1..Len(s) : s[k] \in BengaliTokens

is_header_line(s) == \E k \in 1..Len(s) : s[k] \in HeaderTokens

HasColon(s) == \E k \in 1..Len(s) : s[k] \in ColonTokens

\* NAME_PREFIX.search(text): r"^Name:\s*" is anchored at the start.
NameSearch(s) == s # <<>> /\ Head(s) \in NAME_PREFIX

\* NAME_PREFIX.sub("", text): the anchored match and the whitespace after it.
NameSub(s) == IF NameSearch(s) THEN LStrip(Tail(s)) ELSE s

\* P.search(text) for the unanchored patterns DOB_PREFIX and IDNO_PREFIX.
Search(P, s) == \E k \in 1..Len(s) : s[k] \in P

\* P.sub("", text) for an unanchored pattern: every match, each with the
\* whitespace that follows it, is removed.
RECURSIVE Sub(_, _)
Sub(P, s) ==
    IF s = <<>> THEN <<>>
    ELSE IF Head(s) \in P THEN Sub(P, LStrip(Tail(s)))
    ELSE <<Head(s)>> \o Sub(P, Tail(s))

\* text.split(label, 1)[-1]: what follows the first occurrence of label.
RECURSIVE SplitLast(_, _)
SplitLast(s, label) ==
    IF s = <<>> THEN <<>>
    ELSE IF Head(s) = label THEN Tail(s)
    ELSE SplitLast(Tail(s), label)

(***************************************************************************)
(* nid_ocr.py: extract_nid_fields                                          *)
(***************************************************************************)
FieldNames == {"english_name", "bangla_name", "father_name", "mother_name",
               "date_of_birth", "id_no"}

\* None in the result dict.
NoRec == [present |-> FALSE, bbox |-> <<0, 0, 0, 0>>, text |-> <<>>]

Rec(b, t) == [present |-> TRUE, bbox |-> b, text |-> t]

\* lines[k] with Python's 0-based index.
Line(ls, k) == ls[k + 1]

\* (line.text or "")
TextOr(ln) == IF ln.hasText THEN ln.text ELSE <<>>

\* text = (line.text or "").strip()
LineText(ls, k) == Strip(TextOr(Line(ls, k)))

\* A variant of the english_name rule that stores the line without testing
\* NAME_PREFIX.search.
EnglishBlockAlways(o, ls, k) ==
    [o EXCEPT !["english_name"] =
         Rec(Line(ls, k).bbox, Strip(NameSub(LineText(ls, k))))]

EnglishBlock(o, ls, k) ==
    IF NameSearch(LineText(ls, k))
    THEN [o EXCEPT !["english_name"] =
              Rec(Line(ls, k).bbox, Strip(NameSub(LineText(ls, k))))]
    ELSE o

DobBlock(o, ls, k) ==
    IF Search(DOB_PREFIX, LineText(ls, k))
    THEN [o EXCEPT !["date_of_birth"] =
              Rec(Line(ls, k).bbox, Strip(Sub(DOB_PREFIX, LineText(ls, k))))]
    ELSE o

IdNoBlock(o, ls, k) ==
    IF Search(IDNO_PREFIX, LineText(ls, k))
    THEN [o EXCEPT !["id_no"] =
              Rec(Line(ls, k).bbox, Strip(Sub(IDNO_PREFIX, LineText(ls, k))))]
    ELSE o

\* lines[i + 1].text.strip() is evaluated and lines[i + 1].text is None.
NextTextRaises(ls, k) == k + 1 < Len(ls) /\ ~Line(ls, k + 1).hasText

\* lines[i + 1].text.strip() if i + 1 < len(lines) else ""
NextText(ls, k) == IF k + 1 < Len(ls) THEN Strip(Line(ls, k + 1).text) ELSE <<>>

FatherRaises(ls, k) ==
    /\ Contains(LineText(ls, k), BANGLA_FATHER)
    /\ Strip(SplitLast(LineText(ls, k), BANGLA_FATHER)) = <<>>
    /\ NextTextRaises(ls, k)

\* A variant of the father rule that keeps an earlier record instead of
\* overwriting it.
FatherBlockKeepFirst(o, ls, k) ==
    IF Contains(LineText(ls, k), BANGLA_FATHER) /\ ~o["father_name"].present
    THEN LET after == Strip(SplitLast(LineText(ls, k), BANGLA_FATHER))
             value == IF after # <<>> THEN after ELSE NextText(ls, k)
         IN [o EXCEPT !["father_name"] = Rec(Line(ls, k).bbox, value)]
    ELSE o

FatherBlock(o, ls, k) ==
    IF Contains(LineText(ls, k), BANGLA_FATHER)
    THEN LET after == Strip(SplitLast(LineText(ls, k), BANGLA_FATHER))
             value == IF after # <<>> THEN after ELSE NextText(ls, k)
         IN [o EXCEPT !["father_name"] = Rec(Line(ls, k).bbox, value)]
    ELSE o

\* The elif of the mother rule: i > 0 and (lines[i - 1].text or "").strip()
PrevNonEmpty(ls, k) == k > 0 /\ LineText(ls, k - 1) # <<>>

MotherRaises(ls, k) ==
    /\ Contains(LineText(ls, k), BANGLA_MOTHER)
    /\ Strip(SplitLast(LineText(ls, k), BANGLA_MOTHER)) = <<>>
    /\ ~PrevNonEmpty(ls, k)
    /\ NextTextRaises(ls, k)

MotherBlock(o, ls, k) ==
    IF Contains(LineText(ls, k), BANGLA_MOTHER)
    THEN LET after_label == Strip(SplitLast(LineText(ls, k), BANGLA_MOTHER))
         IN IF after_label # <<>>
            THEN [o EXCEPT !["mother_name"] = Rec(Line(ls, k).bbox, after_label)]
            ELSE IF PrevNonEmpty(ls, k)
            THEN [o EXCEPT !["mother_name"] =
                      Rec(Line(ls, k - 1).bbox, LineText(ls, k - 1))]
            ELSE [o EXCEPT !["mother_name"] = Rec(Line(ls, k).bbox, NextText(ls, k))]
    ELSE o

\* for j in range(i - 1, -1, -1): the index at which the scan breaks, or -1
\* when it runs to the start without a break.
RECURSIVE ScanBack(_, _)
ScanBack(ls, j) ==
    IF j < 0 THEN -1
    ELSE LET prev == LineText(ls, j)
         IN IF prev # <<>> /\ has_bengali(prev) /\ ~is_header_line(prev)
            THEN j
            ELSE ScanBack(ls, j - 1)

\* bangla_found after the backward scan.
BanglaFound(ls, k) ==
    LET j == ScanBack(ls, k - 1)
    IN j >= 0 /\ ~HasColon(LineText(ls, j)) /\ ~NameSearch(LineText(ls, j))

\* The forward look accepts lines[i + 1].
BanglaNextOk(ls, k) ==
    /\ k + 1 < Len(ls)
    /\ LET next_line == LineText(ls, k + 1)
       IN next_line # <<>> /\ has_bengali(next_line) /\ ~NameSearch(next_line)

BanglaBlock(o, ls, k) ==
    IF Contains(LineText(ls, k), BANGLA_NAME_LABEL)
    THEN IF BanglaFound(ls, k)
         THEN LET j == ScanBack(ls, k - 1)
              IN [o EXCEPT !["bangla_name"] = Rec(Line(ls, j).bbox, LineText(ls, j))]
         ELSE IF BanglaNextOk(ls, k)
         THEN [o EXCEPT !["bangla_name"] =
                   Rec(Line(ls, k + 1).bbox, LineText(ls, k + 1))]
         ELSE o
    ELSE o

\* The part of one loop iteration that runs before the father rule.
BeforeFather(o, ls, k) == IdNoBlock(DobBlock(EnglishBlock(o, ls, k), ls, k), ls, k)

\* One iteration of `for i, line in enumerate(lines)`.
ProcessLine ==
    /\ pc = "loop"
    /\ i < Len(lines)
    /\ LET o3 == BeforeFather(out, lines, i)
           o4 == FatherBlock(o3, lines, i)
           o5 == MotherBlock(o4, lines, i)
       IN IF FatherRaises(lines, i)
          THEN /\ pc' = "raised"
               /\ out' = o3
               /\ i' = i
          ELSE IF MotherRaises(lines, i)
          THEN /\ pc' = "raised"
               /\ out' = o4
               /\ i' = i
          ELSE /\ pc' = "loop"
               /\ out' = BanglaBlock(o5, lines, i)
               /\ i' = i + 1
    /\ UNCHANGED <<lines>>
    /\ UNCHANGED rvars

\* return out
Return ==
    /\ pc = "loop"
    /\ i = Len(lines)
    /\ pc' = "done"
    /\ UNCHANGED <<lines, i, out>>
    /\ UNCHANGED rvars

\* The texts an OCR line is drawn from.
T(s) == [hasText |-> TRUE, text |-> s]

LineTexts ==
    { [hasText |-> FALSE, text |-> <<>>],
      T(<<>>),
      T(<<" ">>),
      T(<<"bn_word">>),
      T(<<"JOHN">>),
      T(<<"Name:", " ", "JOHN">>),
      T(<<"JOHN", " ", "Name:", " ", "JOHN">>),
      T(<<"Date of Birth:", " ", "JOHN">>),
      T(<<"date of birth:", "JOHN", " ">>),
      T(<<"JOHN", " ", "Date of Birth:", " ", "JOHN">>),
      T(<<"ID NO:", " ", "JOHN">>),
      T(<<"bn_pita:">>),
      T(<<"bn_pita:", " ", "bn_word">>),
      T(<<"bn_mata:">>),
      T(<<"bn_mata:", " ", "bn_word">>),
      T(<<"bn_naam:">>),
      T(<<"bn_naam:", " ", "bn_pita:">>),
      T(<<"bn_jatiyo", " ", "bn_word">>) }

\* The bbox of the k-th line (1-based): lines are in reading order, each with
\* its own box.
BboxAt(k) == <<0, 10 * k, 100, 10 * k + 8>>

\* The renderer has not been called.
RenderIdle ==
    /\ w = 1 /\ h = 1 /\ data = <<>> /\ crops_dir = FALSE /\ idx = 0
    /\ heap = <<>> /\ img = 0 /\ img_draw = 0
    /\ crops = {} /\ box = <<>> /\ label_y = 0
    /\ saved = [done |-> FALSE, image |-> {}] /\ rpc = "idle"

InitExtract ==
    /\ \E n \in 0..MaxLines :
         \E f \in [1..n -> LineTexts] :
            lines = [k \in 1..n |->
                       [hasText |-> f[k].hasText, text |-> f[k].text, bbox |-> BboxAt(k)]]
    /\ i = 0
    /\ out = [f \in FieldNames |-> NoRec]
    /\ pc = "loop"
    /\ RenderIdle

NextExtract == ProcessLine \/ Return

SpecExtract == InitExtract /\ [][NextExtract]_vars

(***************************************************************************)
(* draw_nid_boxes.py: draw_boxes_on_image                                  *)
(*                                                                         *)
(* An image is the set of drawing operations applied to its loaded pixels; *)
(* the loaded image is the empty set.  Images live in a heap and img,      *)
(* img_draw are references into it, so that a copy and an alias differ.    *)
(***************************************************************************)
BOX_THICKNESS == 3
LABEL_HEIGHT == 22

DEFAULT_COLOR == <<180, 180, 180>>

FIELD_COLORS(name) ==
    CASE name = "english_name" -> <<255, 100, 100>>
      [] name = "bangla_name" -> <<100, 200, 255>>
      [] name = "father_name" -> <<100, 255, 150>>
      [] name = "mother_name" -> <<255, 200, 100>>
      [] name = "date_of_birth" -> <<200, 100, 255>>
      [] name = "id_no" -> <<100, 255, 255>>
      [] OTHER -> DEFAULT_COLOR

Max(a, b) == IF a >= b THEN a ELSE b
Min(a, b) == IF a <= b THEN a ELSE b

\* A variant of the clamp that does not force x_max, y_max past x_min, y_min.
ClampNoFloor(b, iw, ih) ==
    LET x_min == Max(0, Min(b[1], iw - 1))
        y_min == Max(0, Min(b[2], ih - 1))
    IN <<x_min, y_min, Min(b[3], iw), Min(b[4], ih)>>

\* Clamp to image bounds.
Clamp(b, iw, ih) ==
    LET x_min == Max(0, Min(b[1], iw - 1))
        y_min == Max(0, Min(b[2], ih - 1))
        x_max == Max(x_min + 1, Min(b[3], iw))
        y_max == Max(y_min + 1, Min(b[4], ih))
    IN <<x_min, y_min, x_max, y_max>>

\* label_y = max(2, y_min - LABEL_HEIGHT)
LabelY(y_min) == Max(2, y_min - LABEL_HEIGHT)

\* The image as loaded from disk: nothing drawn on it.
LoadedImage == {}

\* An alias instead of a copy: the same heap object under a second name.
ImageAlias(hp, r) == [heap |-> hp, ref |-> r]

\* img.copy(): a new heap object with the same content.
ImageCopy(hp, r) == [heap |-> Append(hp, hp[r]), ref |-> Len(hp) + 1]

\* Pixel (x, y) is painted by drawing operation op.  A rectangle covers its
\* two corner points inclusively; an outline covers the pixels within
\* BOX_THICKNESS of its border; text covers at least its anchor pixel.
Painted(op, x, y) ==
    CASE op.kind = "outline" ->
            /\ op.x0 <= x /\ x <= op.x1 /\ op.y0 <= y /\ y <= op.y1
            /\ \/ x - op.x0 < BOX_THICKNESS \/ op.x1 - x < BOX_THICKNESS
               \/ y - op.y0 < BOX_THICKNESS \/ op.y1 - y < BOX_THICKNESS
      [] op.kind = "fill" ->
            op.x0 <= x /\ x <= op.x1 /\ op.y0 <= y /\ y <= op.y1
      [] op.kind = "text" -> x = op.x0 /\ y = op.y0

Op(kind, n, name, x0, y0, x1, y1) ==
    [kind |-> kind, n |-> n, name |-> name, color |-> FIELD_COLORS(name),
     x0 |-> x0, y0 |-> y0, x1 |-> x1, y1 |-> y1]

\* The three drawing calls of one field, in order: the box outline, the
\* filled label strip above it and the label text.
FieldOps(n, name, b, ly) ==
    { Op("outline", n, name, b[1], b[2], b[3], b[4]),
      Op("fill", n, name, b[1], ly, b[3], b[2]),
      Op("text", n, name, b[1] + 4, ly + 2, b[1] + 4, ly + 2) }

\* item is None
IsNull(e) == e.isNull

\* not bbox or len(bbox) != 4
BadBbox(e) == ~e.hasBbox \/ Len(e.bbox) = 0 \/ Len(e.bbox) # 4

\* int(x) raises for some element of bbox.
IntRaises(e) == \E k \in 1..Len(e.bbox) : ~e.bbox[k].num

\* [int(x) for x in bbox]
Ints(e) == [k \in 1..Len(e.bbox) |-> e.bbox[k].v]

\* Image.open(...).convert("RGB"), img.copy(), json.load.
Load ==
    /\ rpc = "start"
    /\ LET hp == Append(heap, LoadedImage)
           cp == ImageCopy(hp, Len(hp))
       IN /\ img' = Len(hp)
          /\ heap' = cp.heap
          /\ img_draw' = cp.ref
    /\ rpc' = "loop"
    /\ UNCHANGED <<w, h, data, crops_dir, idx, crops, box, label_y, saved>>
    /\ UNCHANGED <<lines, i, out, pc>>

\* One iteration of `for field_name, item in data.items()`.
ProcessField ==
    /\ rpc = "loop"
    /\ idx < Len(data)
    /\ LET e == data[idx + 1]
       IN IF IsNull(e) \/ BadBbox(e)
          THEN /\ idx' = idx + 1
               /\ UNCHANGED <<heap, crops, box, label_y, rpc>>
          ELSE IF IntRaises(e)
          THEN /\ rpc' = "raised"
               /\ UNCHANGED <<idx, heap, crops, box, label_y>>
          ELSE LET b == Clamp(Ints(e), w, h)
                   ly == LabelY(b[2])
               IN /\ box' = b
                  /\ crops' = IF crops_dir
                              THEN {c \in crops : c.name # e.name} \cup
                                   {[name |-> e.name, n |-> idx, box |-> b,
                                     src |-> heap[img]]}
                              ELSE crops
                  /\ label_y' = ly
                  /\ heap' = [heap EXCEPT ![img_draw] =
                                 @ \cup FieldOps(idx, e.name, b, ly)]
                  /\ idx' = idx + 1
                  /\ rpc' = "loop"
    /\ UNCHANGED <<w, h, data, crops_dir, img, img_draw, saved>>
    /\ UNCHANGED <<lines, i, out, pc>>

\* img_draw.save(output_path)
Save ==
    /\ rpc = "loop"
    /\ idx = Len(data)
    /\ saved' = [done |-> TRUE, image |-> heap[img_draw]]
    /\ rpc' = "done"
    /\ UNCHANGED <<w, h, data, crops_dir, idx, heap, img, img_draw, crops, box,
                   label_y>>
    /\ UNCHANGED <<lines, i, out, pc>>

\* The keys of the JSON file in the order nid_ocr.py writes them.
FieldOrder == <<"english_name", "bangla_name", "father_name", "mother_name",
                "date_of_birth", "id_no">>

N(v) == [num |-> TRUE, v |-> v]
NonNumeric == [num |-> FALSE, v |-> 0]
IntBbox(b) == [isNull |-> FALSE, hasBbox |-> TRUE, bbox |-> [k \in 1..4 |-> N(b[k])]]

\* The entries a JSON value is drawn from: null, a record without bbox, an
\* empty, short or long bbox, a bbox with a non-numeric element, and integer
\* boxes inside, outside, across and inverted with respect to the images.
Entries ==
    { [isNull |-> TRUE, hasBbox |-> FALSE, bbox |-> <<>>],
      [isNull |-> FALSE, hasBbox |-> FALSE, bbox |-> <<>>],
      [isNull |-> FALSE, hasBbox |-> TRUE, bbox |-> <<>>],
      [isNull |-> FALSE, hasBbox |-> TRUE, bbox |-> <<N(1), N(2), N(3)>>],
      [isNull |-> FALSE, hasBbox |-> TRUE, bbox |-> <<N(1), N(2), N(3), N(4), N(5)>>],
      [isNull |-> FALSE, hasBbox |-> TRUE, bbox |-> <<N(1), N(2), NonNumeric, N(4)>>],
      IntBbox(<<-5, 10, 10000, 20>>),
      IntBbox(<<0, 0, 1, 1>>),
      IntBbox(<<20, 20, 10, 10>>),
      IntBbox(<<0, 1, 10, 30>>),
      IntBbox(<<1, 2, 3, 25>>),
      IntBbox(<<5, 26, 8, 28>>),
      IntBbox(<<2, 12, 30, 18>>),
      IntBbox(<<10000, 10000, 10001, 10001>>) }

\* Image sizes (width, height).
Sizes == {<<1, 1>>, <<40, 30>>, <<500, 300>>}

\* Coordinates of the one-entry files that sweep every box over them.
Coords == {-5, 0, 1, 2, 10, 20, 30, 40, 10000}

Named(f) == [k \in 1..Len(f) |->
               [name |-> FieldOrder[k], isNull |-> f[k].isNull,
                hasBbox |-> f[k].hasBbox, bbox |-> f[k].bbox]]

ExtractIdle ==
    /\ lines = <<>> /\ i = 0 /\ out = [f \in FieldNames |-> NoRec] /\ pc = "idle"

InitRender ==
    /\ \E sz \in Sizes : w = sz[1] /\ h = sz[2]
    /\ \/ \E n \in 0..MaxFields : \E f \in [1..n -> Entries] : data = Named(f)
       \/ \E b \in Coords \X Coords \X Coords \X Coords : data = Named(<<IntBbox(b)>>)
    /\ crops_dir \in BOOLEAN
    /\ idx = 0
    /\ heap = <<>> /\ img = 0 /\ img_draw = 0
    /\ crops = {} /\ box = <<>> /\ label_y = 0
    /\ saved = [done |-> FALSE, image |-> {}]
    /\ rpc = "start"
    /\ ExtractIdle

NextRender == Load \/ ProcessField \/ Save

SpecRender == InitRender /\ [][NextRender]_vars

(***************************************************************************)
(* Properties of extract_nid_fields                                        *)
(***************************************************************************)
\* The line (0-based) whose iteration ran last: the one that raised, or the
\* one before the loop index.
LastAttempted == IF pc = "raised" THEN i ELSE i - 1

\* The label pattern of field f occurs in the stripped text s.
LabelOccurs(f, s) ==
    CASE f = "english_name" -> NameSearch(s)
      [] f = "date_of_birth" -> Search(DOB_PREFIX, s)
      [] f = "id_no" -> Search(IDNO_PREFIX, s)
      [] f = "father_name" -> Contains(s, BANGLA_FATHER)
      [] f = "mother_name" -> Contains(s, BANGLA_MOTHER)
      [] f = "bangla_name" -> Contains(s, BANGLA_NAME_LABEL)

Blank == [f \in FieldNames |-> NoRec]

\* What the rule of field f stores when it runs on line k alone (NoRec when
\* it stores nothing).
ProducedBy(f, k) ==
    CASE f = "english_name" -> EnglishBlock(Blank, lines, k)[f]
      [] f = "date_of_birth" -> DobBlock(Blank, lines, k)[f]
      [] f = "id_no" -> IdNoBlock(Blank, lines, k)[f]
      [] f = "father_name" -> FatherBlock(Blank, lines, k)[f]
      [] f = "mother_name" -> MotherBlock(Blank, lines, k)[f]
      [] f = "bangla_name" -> BanglaBlock(Blank, lines, k)[f]

LabelLines(f) == {k \in 0..(Len(lines) - 1) : LabelOccurs(f, LineText(lines, k))}

SetMax(S) == CHOOSE m \in S : \A n \in S : n <= m

\* C2: extract_nid_fields is total: on every line sequence, lines without
\* text included, it returns and never raises.
C2_NeverRaises == pc # "raised"

\* C3: the result has exactly the six keys, and a field is non-null only if
\* some line already iterated matches the field's label pattern; so without
\* any label line all six fields are null.
C3_SixKeysNullWithoutLabel ==
    /\ DOMAIN out = FieldNames
    /\ \A f \in FieldNames :
         out[f].present =>
            \E k \in LabelLines(f) : k <= LastAttempted

\* C3 witness: a run over a non-empty sequence without any label returned
\* six nulls.
C3_Witness ==
    /\ pc = "done"
    /\ Len(lines) >= 2
    /\ \A f \in FieldNames : LabelLines(f) = {} /\ ~out[f].present

\* C4 as stated: in the returned result every field whose label occurs holds
\* what its rule produces for the last label line (nothing, when the rule
\* stores nothing there).
C4_LastMatchWinsAllFields ==
    pc = "done" =>
       \A f \in FieldNames :
          LabelLines(f) # {} => out[f] = ProducedBy(f, SetMax(LabelLines(f)))

\* C4 amended: in the returned result each of english_name, father_name,
\* mother_name, date_of_birth and id_no whose label occurs holds what its rule
\* produces for the last label line; bangla_name holds what its rule produces
\* for the last label line at which the rule accepted a candidate, and is null
\* when there is no such line.
C4_LastMatchWins ==
    pc = "done" =>
       /\ \A f \in FieldNames \ {"bangla_name"} :
             LabelLines(f) # {} => out[f] = ProducedBy(f, SetMax(LabelLines(f)))
       /\ LET acc == {k \in LabelLines("bangla_name") :
                          ProducedBy("bangla_name", k).present}
          IN out["bangla_name"] =
                IF acc = {} THEN NoRec ELSE ProducedBy("bangla_name", SetMax(acc))

\* C4 witness: a returned result in which the father label recurred and the
\* later line overwrote the earlier record, while the last bangla label line
\* accepted nothing and an earlier bangla record stayed.
C4_Witness ==
    /\ pc = "done"
    /\ \E k1, k2 \in LabelLines("father_name") :
          /\ k1 < k2
          /\ k2 = SetMax(LabelLines("father_name"))
          /\ ProducedBy("father_name", k1) # ProducedBy("father_name", k2)
          /\ out["father_name"] = ProducedBy("father_name", k2)
    /\ LabelLines("bangla_name") # {}
    /\ ~ProducedBy("bangla_name", SetMax(LabelLines("bangla_name"))).present
    /\ out["bangla_name"].present

\* The record of field f carries the bbox of line k.
HoldsBboxOf(f, k) == out[f].present /\ out[f].bbox = Line(lines, k).bbox

BeginsWith(P, s) == s # <<>> /\ Head(s) \in P

\* C5: a line sets date_of_birth (id_no) only if its trimmed text begins with
\* the label, and the stored text is the trimmed remainder after that prefix.
C5_DobIdPrefixOnly ==
    \A k \in 0..(i - 1) :
       /\ HoldsBboxOf("date_of_birth", k) =>
             /\ BeginsWith(DOB_PREFIX, LineText(lines, k))
             /\ out["date_of_birth"].text = Strip(Tail(LineText(lines, k)))
       /\ HoldsBboxOf("id_no", k) =>
             /\ BeginsWith(IDNO_PREFIX, LineText(lines, k))
             /\ out["id_no"].text = Strip(Tail(LineText(lines, k)))

\* The text of line k as a neighbour: the empty string when there is no such
\* line or the line has no text.
NeighbourText(k) ==
    IF k >= 0 /\ k < Len(lines) THEN LineText(lines, k) ELSE <<>>

\* C6: on a line with the mother label the record is (1) the text after the
\* label with the line's bbox, else (2) the previous line's non-empty text with
\* the previous line's bbox, else (3) the next line's text (empty without a
\* next line) with the line's bbox.
C6_MotherPrecedence ==
    LET k == LastAttempted
    IN (k >= 0 /\ Contains(LineText(lines, k), BANGLA_MOTHER)) =>
          LET after == Strip(SplitLast(LineText(lines, k), BANGLA_MOTHER))
          IN out["mother_name"] =
                IF after # <<>> THEN Rec(Line(lines, k).bbox, after)
                ELSE IF k > 0 /\ NeighbourText(k - 1) # <<>>
                THEN Rec(Line(lines, k - 1).bbox, NeighbourText(k - 1))
                ELSE Rec(Line(lines, k).bbox, NeighbourText(k + 1))

\* Line k-1 is a non-empty, non-header Bengali line without a colon.
GoodPrev(k) ==
    /\ k > 0
    /\ LET prev == LineText(lines, k - 1)
       IN prev # <<>> /\ has_bengali(prev) /\ ~is_header_line(prev) /\ ~HasColon(prev)

\* C7: when the line just iterated has the Bengali name label and the line
\* before it is a non-empty, non-header Bengali line without a colon, then
\* bangla_name is that preceding line's text and bbox, whatever follows.
C7_PrevLineWins ==
    LET k == LastAttempted
    IN (k >= 0 /\ Contains(LineText(lines, k), BANGLA_NAME_LABEL) /\ GoodPrev(k)) =>
          out["bangla_name"] = Rec(Line(lines, k - 1).bbox, LineText(lines, k - 1))

(***************************************************************************)
(* Properties of draw_boxes_on_image                                       *)
(***************************************************************************)
\* C1: every clamped box satisfies 0 <= x_min < x_max <= w and
\* 0 <= y_min < y_max <= h, clamping it again leaves it unchanged, and
\* [-5, 10, 10000, 20] on a 500x300 image clamps to [0, 10, 500, 20].
C1_ClampInBoundsIdempotent ==
    box # <<>> =>
       /\ 0 <= box[1] /\ box[1] < box[3] /\ box[3] <= w
       /\ 0 <= box[2] /\ box[2] < box[4] /\ box[4] <= h
       /\ Clamp(box, w, h) = box
       /\ (w = 500 /\ h = 300 /\ idx > 0
              /\ data[idx] = Named(<<IntBbox(<<-5, 10, 10000, 20>>)>>)[1])
             => box = <<0, 10, 500, 20>>

\* C1 witness: the box [-5, 10, 10000, 20] was clamped on a 500x300 image.
C1_Witness ==
    /\ w = 500 /\ h = 300 /\ idx = 1
    /\ data[1] = Named(<<IntBbox(<<-5, 10, 10000, 20>>)>>)[1]
    /\ box = <<0, 10, 500, 20>>

\* An entry that is null or whose bbox is absent, not of length 4, or holds a
\* non-numeric element.
Malformed(e) == IsNull(e) \/ BadBbox(e) \/ IntRaises(e)

\* C8: a null or malformed entry is skipped and never makes the run fail.
C8_MalformedNeverFails ==
    ~(rpc = "raised" /\ Malformed(data[idx + 1]))

\* C9: no drawing step modifies the original image, which stays equal to the
\* loaded image and distinct from the annotated copy, and no crop holds a
\* painted pixel.
C9_CropsFromUntouchedOriginal ==
    rpc \in {"loop", "raised", "done"} =>
       /\ img # img_draw
       /\ heap[img] = LoadedImage
       /\ \A c \in crops :
             ~\E op \in c.src :
                 \E x \in c.box[1]..(c.box[3] - 1) :
                    \E y \in c.box[2]..(c.box[4] - 1) : Painted(op, x, y)

\* C9 witness: the run finished with a crop whose region holds the corner of
\* a rectangle that an earlier field drew on the annotated copy.
C9_Witness ==
    /\ rpc = "done"
    /\ \E c \in crops :
          \E op \in heap[img_draw] :
             /\ op.kind = "outline" /\ op.n < c.n
             /\ c.box[1] <= op.x0 /\ op.x0 < c.box[3]
             /\ c.box[2] <= op.y0 /\ op.y0 < c.box[4]
             /\ Painted(op, op.x0, op.y0)

\* C10: for every drawn field the label strip [label_y, y_min] satisfies
\* 0 <= label_y <= y_min.
C10_StripNotInverted ==
    box # <<>> => (0 <= label_y /\ label_y <= box[2])

====
